---------------------------- MODULE Spec2Model ----------------------------
(***************************************************************************)
(* A model of src/app.py: the allow-listed expression evaluator safe_eval  *)
(* and the calculator's session handlers (append_to_expr, backspace,       *)
(* clear_all, evaluate, the history's "Use" and "Clear history" buttons).  *)
(*                                                                         *)
(* Text is a sequence of characters.  Digits and punctuation are single    *)
(* characters; an identifier fragment ("sqrt", "pi", "foo", ...) and a     *)
(* quoted literal ("'s'", "b's'") are carried as one symbol each, and the  *)
(* tokenizer joins adjacent fragments and digits into one identifier as    *)
(* Python's does.  Python's int/float values are exact rationals n/d;      *)
(* the irrational ones (pi, e, tau, square roots) are kept to a reduced    *)
(* precision.                                                              *)
(***************************************************************************)
EXTENDS Integers, Sequences, FiniteSets, TLC

VARIABLES
    SAFE_NAMES,        \* the module-level dict SAFE_NAMES
    ALLOWED_BINOPS,    \* the module-level dict ALLOWED_BINOPS
    ALLOWED_UNARYOPS,  \* the module-level dict ALLOWED_UNARYOPS
    expr,              \* st.session_state.expr
    result,            \* st.session_state.result
    error,             \* st.session_state.error
    history,           \* st.session_state.history
    arg,               \* the string a caller passes to safe_eval
    rets,              \* the outcomes of the calls safe_eval(arg) made so far
    others             \* whether another expression was evaluated in between

tables  == <<SAFE_NAMES, ALLOWED_BINOPS, ALLOWED_UNARYOPS>>
session == <<expr, result, error, history>>
caller  == <<arg, rets, others>>
vars    == <<SAFE_NAMES, ALLOWED_BINOPS, ALLOWED_UNARYOPS,
             expr, result, error, history, arg, rets, others>>

(***************************************************************************)
(* Optional values: Python's None and a present value.                     *)
(***************************************************************************)
None == << >>
Some(x) == <<x>>

(***************************************************************************)
(* Numbers.  A value is [t, n, d]: its Python type and the rational n/d in *)
(* lowest terms with d > 0.                                                *)
(***************************************************************************)
Abs(i) == IF i < 0 THEN -i ELSE i

RECURSIVE GCD(_, _)
GCD(a, b) == IF b = 0 THEN a ELSE GCD(b, a % b)

Num(t, n, d) ==
    LET s == IF d < 0 THEN -1 ELSE 1
        g == GCD(Abs(n), Abs(d))
    IN  [t |-> t, n |-> (s * n) \div g, d |-> (s * d) \div g]

PyInt(n)      == [t |-> "int", n |-> n, d |-> 1]
PyFloat(n, d) == Num("float", n, d)
Opaque(t)   == [t |-> t, n |-> 0, d |-> 1]

IsReal(v)    == v.t \in {"int", "bool", "float"}
IsIntLike(v) == v.t \in {"int", "bool"}
Sign(v)      == IF v.n < 0 THEN -1 ELSE IF v.n = 0 THEN 0 ELSE 1
FloorQ(n, d) == n \div d
CeilQ(n, d)  == -((-n) \div d)

RECURSIVE IPow(_, _)
IPow(b, k) == IF k = 0 THEN 1 ELSE b * IPow(b, k - 1)

RECURSIVE Fact(_)
Fact(k) == IF k <= 1 THEN 1 ELSE k * Fact(k - 1)

(***************************************************************************)
(* Text: str.strip and str.replace("^", "**").                             *)
(***************************************************************************)
Blank == {" "}

RECURSIVE lstrip(_)
lstrip(s) == IF s # << >> /\ Head(s) \in Blank THEN lstrip(Tail(s)) ELSE s

RECURSIVE rstrip(_)
rstrip(s) ==
    IF s # << >> /\ s[Len(s)] \in Blank THEN rstrip(SubSeq(s, 1, Len(s) - 1)) ELSE s

strip(s) == rstrip(lstrip(s))

\* a replace that stops after the first occurrence
RECURSIVE replace_first_caret(_)
replace_first_caret(s) ==
    IF s = << >> THEN << >>
    ELSE IF Head(s) = "^" THEN <<"*", "*">> \o Tail(s)
    ELSE <<Head(s)>> \o replace_first_caret(Tail(s))

RECURSIVE replace_caret(_)
replace_caret(s) ==
    IF s = << >> THEN << >>
    ELSE IF Head(s) = "^" THEN <<"*", "*">> \o replace_caret(Tail(s))
    ELSE <<Head(s)>> \o replace_caret(Tail(s))

(***************************************************************************)
(* ast.parse(expr, mode="eval"), first half: the tokenizer.                *)
(***************************************************************************)
Digits   == {"0", "1", "2", "5"}
Words    == {"abs", "round", "sqrt", "factorial", "floor", "pi", "foo",
             "ndigits", "number", "True", "None", "j"}
Keywords == {"True", "False", "None"}
Quoted   == {"'s'", "b's'"}
Punct    == {"+", "-", "*", "/", "%", "^", "|", "~", "(", ")", ",", "=", "."}

DigitVal(c) == CASE c = "0" -> 0 [] c = "1" -> 1 [] c = "2" -> 2 [] c = "5" -> 5

Tok(k, s, v) == [k |-> k, s |-> s, v |-> v]
NoVal == Opaque("none")

\* The end of the run of digits that starts at s[i] (i itself when there is none).
RECURSIVE DigitsEnd(_, _)
DigitsEnd(s, i) == IF i <= Len(s) /\ s[i] \in Digits THEN DigitsEnd(s, i + 1) ELSE i

\* The value of the digits s[i..j-1] read as a decimal integer.
RECURSIVE DigitsVal(_, _, _)
DigitsVal(s, i, j) ==
    IF i >= j THEN 0 ELSE DigitsVal(s, i, j - 1) * 10 + DigitVal(s[j - 1])

\* The end of the identifier that starts at s[i]: fragments and digits.
RECURSIVE NameEnd(_, _)
NameEnd(s, i) ==
    IF i <= Len(s) /\ s[i] \in (Words \cup Digits) THEN NameEnd(s, i + 1) ELSE i

RECURSIVE Concat(_, _, _)
Concat(s, i, j) == IF i >= j THEN "" ELSE s[i] \o Concat(s, i + 1, j)

\* A number literal at s[i]: [ok, tok, next].
LexNumber(s, i) ==
    LET a     == DigitsEnd(s, i)                       \* end of the integer part
        dot   == a <= Len(s) /\ s[a] = "."
        b     == IF dot THEN DigitsEnd(s, a + 1) ELSE a \* end of the fraction
        ip    == DigitsVal(s, i, a)
        fp    == DigitsVal(s, a + 1, b)
        fd    == IPow(10, b - (a + 1))
        isint == ~dot
        val   == IF isint THEN PyInt(ip) ELSE PyFloat(ip * fd + fp, fd)
        imag  == b <= Len(s) /\ s[b] = "j"
        e     == IF imag THEN b + 1 ELSE b
        glued == e <= Len(s) /\ s[e] \in (Words \cup Digits)
        lead0 == isint /\ ~imag /\ a - i > 1 /\ s[i] = "0" /\ ip # 0
    IN  IF glued \/ lead0
        THEN [ok |-> FALSE, tok |-> Tok("ERR", "", NoVal), next |-> e]
        ELSE [ok |-> TRUE,
              tok |-> IF imag THEN Tok("NUM", "", Opaque("complex"))
                               ELSE Tok("NUM", "", val),
              next |-> e]

RECURSIVE Lex(_, _, _)
Lex(s, i, acc) ==
    IF i > Len(s) THEN [ok |-> TRUE, toks |-> acc]
    ELSE LET c  == s[i]
             c2 == IF i + 1 <= Len(s) THEN s[i + 1] ELSE ""
             c3 == IF i + 2 <= Len(s) THEN s[i + 2] ELSE ""
         IN  IF c \in Blank THEN Lex(s, i + 1, acc)
             ELSE IF c \in Digits \/ (c = "." /\ c2 \in Digits) THEN
                 LET r == LexNumber(s, i)
                 IN  IF r.ok THEN Lex(s, r.next, Append(acc, r.tok))
                     ELSE [ok |-> FALSE, toks |-> << >>]
             ELSE IF c \in Words THEN
                 LET j  == NameEnd(s, i)
                     id == Concat(s, i, j)
                 IN  Lex(s, j, Append(acc,
                         Tok(IF id \in Keywords THEN "KW" ELSE "NAME", id, NoVal)))
             ELSE IF c \in Quoted THEN
                 Lex(s, i + 1, Append(acc,
                     Tok("STR", "", Opaque(IF c = "b's'" THEN "bytes" ELSE "str"))))
             ELSE IF c = "." /\ c2 = "." /\ c3 = "." THEN
                 Lex(s, i + 3, Append(acc, Tok("ELLIPSIS", "...", NoVal)))
             ELSE IF (c = "*" /\ c2 = "*") \/ (c = "/" /\ c2 = "/") \/ (c = "=" /\ c2 = "=")
                 THEN Lex(s, i + 2, Append(acc, Tok("OP", c \o c2, NoVal)))
             ELSE IF c \in Punct THEN Lex(s, i + 1, Append(acc, Tok("OP", c, NoVal)))
             ELSE [ok |-> FALSE, toks |-> << >>]

tokenize(s) == Lex(s, 1, << >>)

(***************************************************************************)
(* ast.parse(expr, mode="eval"), second half: the grammar.  Each Parse     *)
(* operator reads the tokens t from position i and yields [ok, node, next].*)
(***************************************************************************)
Constant(v)          == [type |-> "Constant", value |-> v]
Name(id)             == [type |-> "Name", id |-> id]
BinOp(l, op, r)      == [type |-> "BinOp", left |-> l, op |-> op, right |-> r]
UnaryOp(op, e)       == [type |-> "UnaryOp", op |-> op, operand |-> e]
Call(f, as, ks)      == [type |-> "Call", func |-> f, args |-> as, keywords |-> ks]
keyword(a, v)        == [arg |-> a, value |-> v]
Attribute(e, a)      == [type |-> "Attribute", value |-> e, attr |-> a]
Tuple(es)            == [type |-> "Tuple", elts |-> es]
Starred(e)           == [type |-> "Starred", value |-> e]
Compare(l, r)        == [type |-> "Compare", left |-> l, ops |-> <<"Eq">>,
                         comparators |-> <<r>>]
Expression(b)        == [type |-> "Expression", body |-> b]

Got(n, i) == [ok |-> TRUE, node |-> n, next |-> i]
Bad       == [ok |-> FALSE, node |-> Tuple(<< >>), next |-> 0]

IsOp(t, i, sym)  == i <= Len(t) /\ t[i].k = "OP" /\ t[i].s = sym
IsOpIn(t, i, S)  == i <= Len(t) /\ t[i].k = "OP" /\ t[i].s \in S
IsKind(t, i, k)  == i <= Len(t) /\ t[i].k = k

BinOpClass(sym) ==
    CASE sym = "+"  -> "Add"      [] sym = "-"  -> "Sub"  [] sym = "*" -> "Mult"
      [] sym = "/"  -> "Div"      [] sym = "//" -> "FloorDiv"
      [] sym = "%"  -> "Mod"      [] sym = "**" -> "Pow"
      [] sym = "|"  -> "BitOr"    [] sym = "^"  -> "BitXor"
UnaryOpClass(sym) ==
    CASE sym = "+" -> "UAdd" [] sym = "-" -> "USub" [] sym = "~" -> "Invert"

KwValue(id) ==
    CASE id = "True"  -> [t |-> "bool", n |-> 1, d |-> 1]
      [] id = "False" -> [t |-> "bool", n |-> 0, d |-> 1]
      [] id = "None"  -> Opaque("NoneType")

RECURSIVE ParseExpression(_, _), ParseCompare(_, _, _, _),
          ParseBitOr(_, _, _), ParseBitXor(_, _, _),
          ParseSum(_, _, _), ParseTerm(_, _, _),
          ParseFactor(_, _), ParsePower(_, _),
          ParsePrimary(_, _), ParseTrailers(_, _, _), ParseAtom(_, _),
          ParseStrings(_, _, _), ParseParen(_, _, _, _),
          ParseArgs(_, _, _, _, _, _)

\* expression: comparison (the conditional, lambda and boolean forms need
\* keywords the alphabet does not hold)
ParseExpression(t, i) == ParseCompare(t, None, FALSE, i)

\* comparison: bitwise_or ('==' bitwise_or)*.  left: the operand or the chain
\* read before the '==' at i - 1, if any; chain: left is this chain's node.
ParseCompare(t, left, chain, i) ==
    LET rest(r) ==
            LET node == IF left = None THEN r.node
                        ELSE IF chain
                             THEN [left[1] EXCEPT !.comparators = Append(@, r.node),
                                                  !.ops = Append(@, "Eq")]
                        ELSE Compare(left[1], r.node)
            IN  IF ~r.ok THEN Bad
                ELSE IF IsOp(t, r.next, "==")
                     THEN ParseCompare(t, Some(node), left # None, r.next + 1)
                ELSE Got(node, r.next)
    IN  rest(ParseBitOr(t, None, i))

\* The binary levels, each left-associative: operand (op operand)*.  left: the
\* node read before the operator at i - 1, if any.
ParseBitOr(t, left, i) ==
    LET rest(r) ==
            LET node == IF left = None THEN r.node
                        ELSE BinOp(left[1], BinOpClass(t[i - 1].s), r.node)
            IN  IF ~r.ok THEN Bad
                ELSE IF IsOp(t, r.next, "|") THEN ParseBitOr(t, Some(node), r.next + 1)
                ELSE Got(node, r.next)
    IN  rest(ParseBitXor(t, None, i))

ParseBitXor(t, left, i) ==
    LET rest(r) ==
            LET node == IF left = None THEN r.node
                        ELSE BinOp(left[1], BinOpClass(t[i - 1].s), r.node)
            IN  IF ~r.ok THEN Bad
                ELSE IF IsOp(t, r.next, "^") THEN ParseBitXor(t, Some(node), r.next + 1)
                ELSE Got(node, r.next)
    IN  rest(ParseSum(t, None, i))

ParseSum(t, left, i) ==
    LET rest(r) ==
            LET node == IF left = None THEN r.node
                        ELSE BinOp(left[1], BinOpClass(t[i - 1].s), r.node)
            IN  IF ~r.ok THEN Bad
                ELSE IF IsOpIn(t, r.next, {"+", "-"})
                     THEN ParseSum(t, Some(node), r.next + 1)
                ELSE Got(node, r.next)
    IN  rest(ParseTerm(t, None, i))

ParseTerm(t, left, i) ==
    LET rest(r) ==
            LET node == IF left = None THEN r.node
                        ELSE BinOp(left[1], BinOpClass(t[i - 1].s), r.node)
            IN  IF ~r.ok THEN Bad
                ELSE IF IsOpIn(t, r.next, {"*", "/", "//", "%"})
                     THEN ParseTerm(t, Some(node), r.next + 1)
                ELSE Got(node, r.next)
    IN  rest(ParseFactor(t, i))

\* factor: ('+' | '-' | '~') factor | power
ParseFactor(t, i) ==
    LET signed(f) ==
            IF f.ok THEN Got(UnaryOp(UnaryOpClass(t[i].s), f.node), f.next) ELSE Bad
    IN  IF IsOpIn(t, i, {"+", "-", "~"}) THEN signed(ParseFactor(t, i + 1))
        ELSE ParsePower(t, i)

\* power: primary ['**' factor]
ParsePower(t, i) ==
    LET raised(b, f) == IF f.ok THEN Got(BinOp(b.node, "Pow", f.node), f.next) ELSE Bad
        rest(b) == IF ~b.ok THEN Bad
                   ELSE IF IsOp(t, b.next, "**") THEN raised(b, ParseFactor(t, b.next + 1))
                   ELSE b
    IN  rest(ParsePrimary(t, i))

ParsePrimary(t, i) ==
    LET rest(a) == IF a.ok THEN ParseTrailers(t, a.node, a.next) ELSE Bad
    IN  rest(ParseAtom(t, i))

\* primary: primary '.' NAME | primary '(' [arguments] ')' | atom
ParseTrailers(t, node, i) ==
    LET called(a) ==
            IF a.ok
            THEN ParseTrailers(t, Call(node, a.node.args, a.node.keywords), a.next)
            ELSE Bad
    IN  IF IsOp(t, i, ".") THEN
            IF IsKind(t, i + 1, "NAME")
            THEN ParseTrailers(t, Attribute(node, t[i + 1].s), i + 2)
            ELSE Bad
        ELSE IF IsOp(t, i, "(")
             THEN called(ParseArgs(t, i + 1, << >>, << >>, FALSE, FALSE))
        ELSE Got(node, i)

ParseAtom(t, i) ==
    IF i > Len(t) THEN Bad
    ELSE CASE t[i].k = "NAME"     -> Got(Name(t[i].s), i + 1)
           [] t[i].k = "KW"       -> Got(Constant(KwValue(t[i].s)), i + 1)
           [] t[i].k = "NUM"      -> Got(Constant(t[i].v), i + 1)
           [] t[i].k = "ELLIPSIS" -> Got(Constant(Opaque("ellipsis")), i + 1)
           [] t[i].k = "STR"      -> ParseStrings(t, i + 1, t[i].v)
           [] t[i].k = "OP"       ->
                IF t[i].s = "(" THEN ParseParen(t, i + 1, << >>, TRUE) ELSE Bad

\* strings: STRING+ (adjacent literals are joined; bytes and text do not mix)
ParseStrings(t, i, v) ==
    IF IsKind(t, i, "STR")
    THEN IF t[i].v = v THEN ParseStrings(t, i + 1, v) ELSE Bad
    ELSE Got(Constant(v), i)

\* After '(' or after a comma inside it: a group "(e)" or a tuple "()",
\* "(e,)", "(e, e)", whose elements may be starred.  elts: the elements read.
ParseParen(t, i, elts, first) ==
    LET star == IsOp(t, i, "*")
        item(e) ==
            LET n == IF star THEN Starred(e.node) ELSE e.node
            IN  IF ~e.ok THEN Bad
                ELSE IF IsOp(t, e.next, ",")
                     THEN ParseParen(t, e.next + 1, Append(elts, n), FALSE)
                ELSE IF IsOp(t, e.next, ")")
                     THEN IF ~first THEN Got(Tuple(Append(elts, n)), e.next + 1)
                          ELSE IF star THEN Bad
                          ELSE Got(n, e.next + 1)
                ELSE Bad
    IN  IF IsOp(t, i, ")") THEN Got(Tuple(elts), i + 1)
        ELSE item(IF star THEN ParseBitOr(t, None, i + 1) ELSE ParseExpression(t, i))

\* After the '(' of a call.  as, ks: the positional (and starred) arguments and
\* the keywords read so far; kw, dstar: a keyword, a '**' was read.  Yields
\* the node [args, keywords].
ParseArgs(t, i, as, ks, kw, dstar) ==
    LET form == IF IsOp(t, i, "**") THEN "dstar"
                ELSE IF IsOp(t, i, "*") THEN "star"
                ELSE IF IsKind(t, i, "NAME") /\ IsOp(t, i + 1, "=") THEN "kw"
                ELSE "pos"
        first == CASE form = "kw" -> i + 2 [] form = "pos" -> i [] OTHER -> i + 1
        item(e) ==
            LET as2 == CASE form = "star" -> Append(as, Starred(e.node))
                         [] form = "pos"  -> Append(as, e.node)
                         [] OTHER         -> as
                ks2 == CASE form = "dstar" -> Append(ks, keyword(None, e.node))
                         [] form = "kw"    -> Append(ks, keyword(Some(t[i].s), e.node))
                         [] OTHER          -> ks
                kw2 == kw \/ form \in {"kw", "dstar"}
                ds2 == dstar \/ form = "dstar"
            IN  IF ~e.ok THEN Bad
                ELSE IF (form = "pos" /\ kw) \/ (form = "star" /\ dstar) THEN Bad
                ELSE IF IsOp(t, e.next, ",")
                     THEN ParseArgs(t, e.next + 1, as2, ks2, kw2, ds2)
                ELSE IF IsOp(t, e.next, ")")
                     THEN Got([args |-> as2, keywords |-> ks2], e.next + 1)
                ELSE Bad
    IN  IF IsOp(t, i, ")") THEN Got([args |-> as, keywords |-> ks], i + 1)
        ELSE item(ParseExpression(t, first))

\* eval_input: expressions; "e, e" and "e," are tuples.
RECURSIVE ParseExpressions(_, _, _)
ParseExpressions(t, i, elts) ==
    LET item(e) ==
            IF ~e.ok THEN Bad
            ELSE IF IsOp(t, e.next, ",")
                 THEN ParseExpressions(t, e.next + 1, Append(elts, e.node))
            ELSE IF e.next > Len(t) THEN Got(Tuple(Append(elts, e.node)), e.next)
            ELSE Bad
    IN  IF i > Len(t) THEN Got(Tuple(elts), i) ELSE item(ParseExpression(t, i))

\* ast.parse(source, mode="eval"): the tree, or a SyntaxError.
ast_parse(source) ==
    LET wrap(r) == IF r.ok THEN [ok |-> TRUE, node |-> Expression(r.node)]
                   ELSE [ok |-> FALSE, node |-> Expression(Tuple(<< >>))]
        rest(t, e) == IF ~e.ok THEN Bad
                      ELSE IF e.next > Len(t) THEN e
                      ELSE IF IsOp(t, e.next, ",")
                           THEN ParseExpressions(t, e.next + 1, <<e.node>>)
                      ELSE Bad
        parse(lx) == IF lx.ok /\ lx.toks # << >>
                     THEN wrap(rest(lx.toks, ParseExpression(lx.toks, 1)))
                     ELSE wrap(Bad)
    IN  parse(tokenize(source))

(***************************************************************************)
(* The allow-list tables as the module builds them (lines 14-57).  A name  *)
(* maps to a constant's value or to a callable, named by the host function.*)
(***************************************************************************)
BinOpTable ==
    [Add |-> "add", Sub |-> "sub", Mult |-> "mul", Div |-> "truediv",
     FloorDiv |-> "floordiv", Mod |-> "mod", Pow |-> "pow"]

UnaryOpTable == [UAdd |-> "pos", USub |-> "neg"]

ConstEntry(v) == [callable |-> FALSE, fn |-> "", val |-> v]
FuncEntry(f)  == [callable |-> TRUE, fn |-> f, val |-> Opaque("builtin")]

NameTable ==
    [pi        |-> ConstEntry(PyFloat(355, 113)),
     e         |-> ConstEntry(PyFloat(193, 71)),
     tau       |-> ConstEntry(PyFloat(710, 113)),
     abs       |-> FuncEntry("abs"),
     round     |-> FuncEntry("round"),
     sqrt      |-> FuncEntry("math.sqrt"),
     log       |-> FuncEntry("math.log"),
     log10     |-> FuncEntry("math.log10"),
     ln        |-> FuncEntry("math.log"),
     exp       |-> FuncEntry("math.exp"),
     sin       |-> FuncEntry("math.sin"),
     cos       |-> FuncEntry("math.cos"),
     tan       |-> FuncEntry("math.tan"),
     asin      |-> FuncEntry("math.asin"),
     acos      |-> FuncEntry("math.acos"),
     atan      |-> FuncEntry("math.atan"),
     degrees   |-> FuncEntry("math.degrees"),
     radians   |-> FuncEntry("math.radians"),
     factorial |-> FuncEntry("math.factorial"),
     floor     |-> FuncEntry("math.floor"),
     ceil      |-> FuncEntry("math.ceil")]

(***************************************************************************)
(* Outcomes: a returned value, or a raised exception (class and str(e)).   *)
(***************************************************************************)
Ret(v)          == [raised |-> FALSE, val |-> v, exc |-> "", msg |-> ""]
Raise(exc, msg) == [raised |-> TRUE, val |-> NoVal, exc |-> exc, msg |-> msg]
SafeEvalError(msg) == Raise("SafeEvalError", msg)

(***************************************************************************)
(* The host functions the tables hold: operator.* on Python numbers.       *)
(***************************************************************************)
ArithType(l, r) == IF IsIntLike(l) /\ IsIntLike(r) THEN "int" ELSE "float"

\* Integer square root by bisection: the r with r*r <= m < (r+1)*(r+1).
RECURSIVE ISqrtIn(_, _, _)
ISqrtIn(m, lo, hi) ==
    IF lo >= hi THEN lo
    ELSE LET mid == (lo + hi + 1) \div 2
         IN  IF mid * mid <= m THEN ISqrtIn(m, mid, hi) ELSE ISqrtIn(m, lo, mid - 1)

\* sqrt(n/d) for n >= 0: exact for squares, else to two decimal places.
SqrtQ(n, d) ==
    LET rn == ISqrtIn(n, 0, 46340)
        rd == ISqrtIn(d, 0, 46340)
    IN  IF rn * rn = n /\ rd * rd = d THEN PyFloat(rn, rd)
        ELSE PyFloat(ISqrtIn(n * d * 10000, 0, 46340), d * 100)

\* (n/d) ** k for an integer k; n # 0 when k < 0
PowQ(t, n, d, k) ==
    IF k >= 0 THEN Num(t, IPow(n, k), IPow(d, k))
    ELSE Num(t, IPow(d, -k), IPow(n, -k))

op_pow(l, r) ==
    IF IsIntLike(l) /\ IsIntLike(r) /\ r.n >= 0 THEN Ret(PyInt(IPow(l.n, r.n)))
    ELSE IF l.n = 0 /\ r.n < 0
         THEN Raise("ZeroDivisionError", "0.0 cannot be raised to a negative power")
    ELSE IF r.d = 1 THEN Ret(PowQ("float", l.n, l.d, r.n))
    ELSE IF l.n < 0 THEN Ret(Opaque("complex"))
    ELSE IF l.n = 0 THEN Ret(PyFloat(0, 1))
    ELSE IF l.n = l.d THEN Ret(PyFloat(1, 1))
    ELSE CASE r.d = 2 ->
              LET q == SqrtQ(l.n, l.d) IN Ret(PowQ("float", q.n, q.d, r.n))

\* ALLOWED_BINOPS[type(n.op)](left, right).  A complex operand (the result
\* of a negative base raised to a fraction) is followed through +, - and *.
ApplyBinOp(fn, l, r) ==
    LET t  == ArithType(l, r)
        fl == IF t = "int" THEN "" ELSE "float "
    IN  IF ~(IsReal(l) /\ IsReal(r))
        THEN CASE fn \in {"add", "sub", "mul"} -> Ret(Opaque("complex"))
        ELSE
        CASE fn = "add" -> Ret(Num(t, l.n * r.d + r.n * l.d, l.d * r.d))
          [] fn = "sub" -> Ret(Num(t, l.n * r.d - r.n * l.d, l.d * r.d))
          [] fn = "mul" -> Ret(Num(t, l.n * r.n, l.d * r.d))
          [] fn = "truediv" ->
                IF r.n = 0
                THEN Raise("ZeroDivisionError", fl \o "division by zero")
                ELSE Ret(PyFloat(l.n * r.d, l.d * r.n))
          [] fn = "floordiv" ->
                IF r.n = 0
                THEN Raise("ZeroDivisionError",
                           IF t = "int" THEN "integer division or modulo by zero"
                           ELSE "float floor division by zero")
                ELSE Ret(Num(t, FloorQ(Num(t, l.n * r.d, l.d * r.n).n,
                                       Num(t, l.n * r.d, l.d * r.n).d), 1))
          [] fn = "mod" ->
                IF r.n = 0
                THEN Raise("ZeroDivisionError",
                           IF t = "int" THEN "integer modulo by zero" ELSE "float modulo")
                ELSE LET q == Num(t, l.n * r.d, l.d * r.n)
                         k == FloorQ(q.n, q.d)
                     IN  Ret(Num(t, l.n * r.d - k * r.n * l.d, l.d * r.d))
          [] fn = "pow" -> op_pow(l, r)

\* ALLOWED_UNARYOPS[type(n.op)](operand)
ApplyUnaryOp(fn, v) ==
    LET t == IF IsIntLike(v) THEN "int" ELSE v.t
    IN  CASE fn = "pos" -> Ret([v EXCEPT !.t = t])
          [] fn = "neg" -> Ret([v EXCEPT !.t = t, !.n = -v.n])

(***************************************************************************)
(* The callables of SAFE_NAMES, called as func( *args, **kwargs ).  args is  *)
(* the list of values; kwargs is the dict, a sequence of [k, v] with       *)
(* distinct keys in insertion order.                                       *)
(***************************************************************************)
HasKey(kw, k) == \E i \in 1..Len(kw) : kw[i].k = k
Lookup(kw, k) == kw[CHOOSE i \in 1..Len(kw) : kw[i].k = k].v
DictSet(kw, k, v) ==
    IF HasKey(kw, k)
    THEN [i \in 1..Len(kw) |-> IF kw[i].k = k THEN [k |-> k, v |-> v] ELSE kw[i]]
    ELSE Append(kw, [k |-> k, v |-> v])

NotAnInteger == Raise("TypeError", "'float' object cannot be interpreted as an integer")
NotReal      == Raise("TypeError", "must be real number, not complex")

\* A function of exactly one positional argument that takes no keywords
\* (METH_O): the outcome of binding, or the body's outcome body(x).
OneArg(name, args, kwargs, body(_)) ==
    IF kwargs # << >> THEN Raise("TypeError", name \o "() takes no keyword arguments")
    ELSE IF Len(args) # 1
         THEN Raise("TypeError", name \o "() takes exactly one argument ("
                                 \o ToString(Len(args)) \o " given)")
    ELSE body(args[1])

\* round half to even of n/d (d > 0)
RoundHalfEven(n, d) ==
    LET f == FloorQ(n, d)
        r == 2 * (n - f * d)
    IN  IF r < d THEN f ELSE IF r > d THEN f + 1 ELSE IF f % 2 = 0 THEN f ELSE f + 1

\* number.__round__(ndigits) with ndigits an int
RoundTo(x, k) ==
    IF k >= 0
    THEN IF IsIntLike(x) THEN PyInt(x.n)
         ELSE PyFloat(RoundHalfEven(x.n * IPow(10, k), x.d), IPow(10, k))
    ELSE Num(IF IsIntLike(x) THEN "int" ELSE "float",
             RoundHalfEven(x.n, x.d * IPow(10, -k)) * IPow(10, -k), 1)

builtin_abs(x) ==
    CASE IsReal(x) -> Ret([x EXCEPT !.t = IF IsIntLike(x) THEN "int" ELSE "float",
                                    !.n = Abs(x.n)])

builtin_round(args, kwargs) ==
    LET given   == Len(args) + Len(kwargs)
        hasNum  == Len(args) >= 1 \/ HasKey(kwargs, "number")
        number  == IF Len(args) >= 1 THEN args[1] ELSE Lookup(kwargs, "number")
        hasDig  == Len(args) >= 2 \/ HasKey(kwargs, "ndigits")
        ndigits == IF Len(args) >= 2 THEN args[2] ELSE Lookup(kwargs, "ndigits")
        byBoth  == {k \in 1..Len(kwargs) :
                       \/ kwargs[k].k = "number" /\ Len(args) >= 1
                       \/ kwargs[k].k = "ndigits" /\ Len(args) >= 2}
        unknown == {k \in 1..Len(kwargs) : kwargs[k].k \notin {"number", "ndigits"}}
        firstOf(S) == CHOOSE k \in S : \A j \in S : k <= j
    IN  IF given > 2
        THEN Raise("TypeError", "round() takes at most 2 arguments ("
                                \o ToString(given) \o " given)")
        ELSE IF ~hasNum
        THEN Raise("TypeError", "round() missing required argument 'number' (pos 1)")
        ELSE IF byBoth \cup unknown # {}
        THEN LET k == firstOf(byBoth \cup unknown)
             IN  IF k \in byBoth
                 THEN Raise("TypeError", "argument for round() given by name ('"
                            \o kwargs[k].k \o "') and position ("
                            \o (IF kwargs[k].k = "number" THEN "1" ELSE "2") \o ")")
                 ELSE Raise("TypeError", "'" \o kwargs[k].k
                            \o "' is an invalid keyword argument for round()")
        ELSE IF ~IsReal(number)
        THEN Raise("TypeError", "type complex doesn't define __round__ method")
        ELSE IF ~hasDig
        THEN Ret(PyInt(RoundHalfEven(number.n, number.d)))
        ELSE IF ~IsIntLike(ndigits) THEN NotAnInteger
        ELSE Ret(RoundTo(number, ndigits.n))

math_sqrt(x) ==
    IF ~IsReal(x) THEN NotReal
    ELSE IF x.n < 0 THEN Raise("ValueError", "math domain error")
    ELSE Ret(SqrtQ(x.n, x.d))

math_factorial(x) ==
    IF ~IsIntLike(x) THEN
        IF x.t = "float" THEN NotAnInteger
        ELSE Raise("TypeError", "'complex' object cannot be interpreted as an integer")
    ELSE IF x.n < 0
         THEN Raise("ValueError", "factorial() not defined for negative values")
    ELSE Ret(PyInt(Fact(x.n)))

math_floor(x) == IF ~IsReal(x) THEN NotReal ELSE Ret(PyInt(FloorQ(x.n, x.d)))
math_ceil(x)  == IF ~IsReal(x) THEN NotReal ELSE Ret(PyInt(CeilQ(x.n, x.d)))

\* func( *args, **kwargs ).  The transcendental functions of the table (log,
\* exp, the trigonometric ones) have no rational model and are not called.
CallBuiltin(fn, args, kwargs) ==
    CASE fn = "abs"            -> OneArg("abs", args, kwargs, builtin_abs)
      [] fn = "round"          -> builtin_round(args, kwargs)
      [] fn = "math.sqrt"      -> OneArg("math.sqrt", args, kwargs, math_sqrt)
      [] fn = "math.factorial" -> OneArg("math.factorial", args, kwargs, math_factorial)
      [] fn = "math.floor"     -> OneArg("math.floor", args, kwargs, math_floor)
      [] fn = "math.ceil"      -> OneArg("math.ceil", args, kwargs, math_ceil)

(***************************************************************************)
(* safe_eval (lines 64-129).                                               *)
(***************************************************************************)
\* isinstance(v, (int, float)): bool is a subclass of int
IsIntOrFloat(v) == v.t \in {"int", "float"} \/ v.t = "bool"

\* a lookup that falls back to a default entry for an unknown name
NamesGetOrAbs(name) ==
    IF name \in DOMAIN SAFE_NAMES THEN Some(SAFE_NAMES[name])
    ELSE Some(SAFE_NAMES["abs"])

\* SAFE_NAMES.get(name): None when the name is not a key
NamesGet(name) ==
    IF name \in DOMAIN SAFE_NAMES THEN Some(SAFE_NAMES[name]) ELSE None

RECURSIVE _eval(_), EvalArgs(_, _, _), EvalKeywords(_, _, _)

\* [_eval(a) for a in n.args]: the list, or the first exception
EvalArgs(as, i, acc) ==
    IF i > Len(as) THEN [raised |-> FALSE, vals |-> acc, why |-> Ret(NoVal)]
    ELSE LET r == _eval(as[i])
         IN  IF r.raised THEN [raised |-> TRUE, vals |-> << >>, why |-> r]
             ELSE EvalArgs(as, i + 1, Append(acc, r.val))

\* {kw.arg: _eval(kw.value) for kw in n.keywords if kw.arg is not None}
EvalKeywords(ks, i, acc) ==
    IF i > Len(ks) THEN [raised |-> FALSE, vals |-> acc, why |-> Ret(NoVal)]
    ELSE IF ks[i].arg = None THEN EvalKeywords(ks, i + 1, acc)
    ELSE LET r == _eval(ks[i].value)
         IN  IF r.raised THEN [raised |-> TRUE, vals |-> << >>, why |-> r]
             ELSE EvalKeywords(ks, i + 1, DictSet(acc, ks[i].arg[1], r.val))

_eval(n) ==
    CASE n.type = "Expression" -> _eval(n.body)
      [] n.type = "Constant" ->
            IF IsIntOrFloat(n.value) THEN Ret(n.value)
            ELSE SafeEvalError("Only numeric constants are allowed.")
      [] n.type = "BinOp" ->
            IF n.op \notin DOMAIN ALLOWED_BINOPS
            THEN SafeEvalError("Operator not allowed.")
            ELSE LET left == _eval(n.left)
                 IN  IF left.raised THEN left
                     ELSE LET right == _eval(n.right)
                          IN  IF right.raised THEN right
                              ELSE ApplyBinOp(ALLOWED_BINOPS[n.op], left.val, right.val)
      [] n.type = "UnaryOp" ->
            IF n.op \notin DOMAIN ALLOWED_UNARYOPS
            THEN SafeEvalError("Unary operator not allowed.")
            ELSE LET operand == _eval(n.operand)
                 IN  IF operand.raised THEN operand
                     ELSE ApplyUnaryOp(ALLOWED_UNARYOPS[n.op], operand.val)
      [] n.type = "Call" ->
            IF n.func.type # "Name"
            THEN SafeEvalError("Only simple function calls are allowed.")
            ELSE LET func_name == n.func.id
                     func      == NamesGet(func_name)
                 IN  IF func = None \/ ~func[1].callable
                     THEN SafeEvalError("Function '" \o func_name \o "' is not allowed.")
                     ELSE LET args == EvalArgs(n.args, 1, << >>)
                          IN  IF args.raised THEN args.why
                              ELSE LET kwargs == EvalKeywords(n.keywords, 1, << >>)
                                   IN  IF kwargs.raised THEN kwargs.why
                                       ELSE CallBuiltin(func[1].fn, args.vals, kwargs.vals)
      [] n.type = "Name" ->
            IF n.id \in DOMAIN SAFE_NAMES /\ ~SAFE_NAMES[n.id].callable
            THEN Ret(SAFE_NAMES[n.id].val)
            ELSE SafeEvalError("Name '" \o n.id \o "' is not allowed.")
      [] n.type \in {"Tuple", "List", "Dict"} ->
            SafeEvalError("Collections are not allowed.")
      [] OTHER -> SafeEvalError("Unsupported expression.")

\* float(result), lines 126-129: a complex result has no float
to_float(v) ==
    IF IsReal(v) THEN Ret(PyFloat(v.n, v.d))
    ELSE SafeEvalError("Could not compute result.")

\* an evaluator that parses whatever it is given, blank or not
safe_eval_unguarded(text) ==
    LET walked(value) == IF value.raised THEN value ELSE to_float(value.val)
        parsed(tree)  == IF ~tree.ok THEN SafeEvalError("Invalid syntax.")
                         ELSE walked(_eval(tree.node))
    IN  parsed(ast_parse(replace_caret(strip(text))))

safe_eval(text) ==
    LET walked(value) == IF value.raised THEN value ELSE to_float(value.val)
        parsed(tree)  == IF ~tree.ok THEN SafeEvalError("Invalid syntax.")
                         ELSE walked(_eval(tree.node))
        stripped      == strip(text)
    IN  IF stripped = << >> THEN SafeEvalError("Empty expression.")
        ELSE parsed(ast_parse(replace_caret(stripped)))

(***************************************************************************)
(* The session handlers (lines 161-203) and the two history buttons        *)
(* (lines 273-278).                                                        *)
(***************************************************************************)
HistoryCap == 15

\* The digits of k >= 0 after a decimal point, by long division of r/d
\* (r < d), to at most k places.
RECURSIVE FracDigits(_, _, _)
FracDigits(r, d, k) ==
    IF r = 0 \/ k = 0 THEN ""
    ELSE ToString((r * 10) \div d) \o FracDigits((r * 10) % d, d, k - 1)

\* str(int(val)) if val.is_integer() else str(val)
format_result(val) ==
    IF val.d = 1 THEN ToString(val.n)
    ELSE LET a == Abs(val.n)
         IN  (IF val.n < 0 THEN "-" ELSE "") \o ToString(a \div val.d) \o "."
             \o FracDigits(a % val.d, val.d, 16)

Take(s, k) == IF Len(s) <= k THEN s ELSE SubSeq(s, 1, k)

init_state ==
    /\ expr = << >>
    /\ result = None
    /\ error = None
    /\ history = << >>

append_to_expr(token) ==
    /\ expr' = expr \o token
    /\ UNCHANGED <<result, error, history>>

backspace ==
    /\ expr' = SubSeq(expr, 1, Len(expr) - 1)
    /\ UNCHANGED <<result, error, history>>

clear_all ==
    /\ expr' = << >>
    /\ result' = None
    /\ error' = None
    /\ UNCHANGED history

\* a try block that records the failed expressions too
evaluate_try_logs_failures(e) ==
    LET outcome(val) ==
            LET shown == format_result(val.val)
            IN  IF val.raised
            THEN /\ result' = None
                 /\ error' = Some(val.msg)
                 /\ history' = Take(<<<<e, "">>>> \o history, HistoryCap)
            ELSE /\ result' = Some(shown)
                 /\ error' = None
                 /\ history' = Take(<<<<e, shown>>>> \o history, HistoryCap)
    IN  outcome(safe_eval(e))

\* a try block that adds the new entry at the end of the history
evaluate_try_appends(e) ==
    LET outcome(val) ==
            LET shown == format_result(val.val)
            IN  IF val.raised
            THEN /\ result' = None
                 /\ error' = Some(val.msg)
                 /\ UNCHANGED history
            ELSE /\ result' = Some(shown)
                 /\ error' = None
                 /\ history' = Take(history \o <<<<e, shown>>>>, HistoryCap)
    IN  outcome(safe_eval(e))

\* a try block whose handler leaves the last result on display
evaluate_try_keeps_result(e) ==
    LET outcome(val) ==
            LET shown == format_result(val.val)
            IN  IF val.raised
            THEN /\ error' = Some(val.msg)
                 /\ UNCHANGED <<result, history>>
            ELSE /\ result' = Some(shown)
                 /\ error' = None
                 /\ history' = Take(<<<<e, shown>>>> \o history, HistoryCap)
    IN  outcome(safe_eval(e))

\* The try block's outcome for the stripped text e (lines 193-203).
evaluate_try(e) ==
    LET outcome(val) ==
            LET shown == format_result(val.val)
            IN  IF val.raised
            THEN /\ result' = None
                 /\ error' = Some(val.msg)
                 /\ UNCHANGED history
            ELSE /\ result' = Some(shown)
                 /\ error' = None
                 /\ history' = Take(<<<<e, shown>>>> \o history, HistoryCap)
    IN  outcome(safe_eval(e))

evaluate ==
    LET e == strip(expr)
    IN  /\ IF e = << >>
           THEN /\ error' = Some("Enter an expression.")
                /\ result' = None
                /\ UNCHANGED history
           ELSE evaluate_try(e)
        /\ UNCHANGED expr

\* the "Use" button of history row i
use_history(i) ==
    /\ expr' = history[i][1]
    /\ UNCHANGED <<result, error, history>>

clear_history ==
    /\ history' = << >>
    /\ UNCHANGED <<expr, result, error>>

\* the text box bound to key "expr": the user's text replaces the expression
text_input(text) ==
    /\ expr' = text
    /\ UNCHANGED <<result, error, history>>

(***************************************************************************)
(* A caller of safe_eval: it evaluates arg, any number of times, with      *)
(* evaluations of other expressions in between.  A call writes nothing     *)
(* but its own locals.                                                     *)
(***************************************************************************)
\* a call that drops the constants from the name table as it returns
safe_eval_forgets ==
    /\ SAFE_NAMES' = [k \in {x \in DOMAIN SAFE_NAMES : SAFE_NAMES[x].callable}
                        |-> SAFE_NAMES[k]]
    /\ UNCHANGED <<ALLOWED_BINOPS, ALLOWED_UNARYOPS, expr, result, error, history>>

safe_eval_frame == UNCHANGED <<SAFE_NAMES, ALLOWED_BINOPS, ALLOWED_UNARYOPS,
                               expr, result, error, history>>

TablesInit ==
    /\ SAFE_NAMES = NameTable
    /\ ALLOWED_BINOPS = BinOpTable
    /\ ALLOWED_UNARYOPS = UnaryOpTable

(***************************************************************************)
(* The expressions evaluated: every text of at most MaxLen characters over *)
(* RawChars, and the texts of the forms below.                             *)
(***************************************************************************)
MaxLen   == 3
MaxArgs  == 2
MaxCalls == 2

RawChars == {" ", "1", "-", "/", "^", "(", ")", "foo"}
RawTexts == UNION {[1..k -> RawChars] : k \in 0..MaxLen}

Leaves ==
    {<<"0">>, <<"1">>, <<"2">>, <<".", "5">>, <<"pi">>, <<"foo">>, <<"sqrt">>,
     <<"True">>, <<"None">>, <<"'s'">>, <<"b's'">>, <<"1", "j">>,
     <<".", ".", ".">>, <<"foo", ".", "pi">>}

SignedTexts == {<<u>> \o a : u \in {"-", "+", "~"}, a \in Leaves}

PaddedTexts == {<<" ">> \o a \o <<" ">> : a \in Leaves}

Operands ==
    {<<"0">>, <<"1">>, <<"2">>, <<".", "5">>, <<"pi">>, <<"foo">>, <<"True">>,
     <<"(", "-", "1", ")">>}
PowSyms == {<<"*", "*">>, <<"^">>}
BinSyms == {<<"+">>, <<"-">>, <<"*">>, <<"/">>, <<"/", "/">>, <<"%">>, <<"|">>,
            <<"=", "=">>} \cup PowSyms

\* a op b; a power's exponent is a literal (x ** pi has no rational model)
BinaryTexts ==
    {a \o op \o b : a \in Operands, op \in BinSyms,
                    b \in {x \in Operands : x # <<"pi">>}}
    \cup {a \o op \o <<"pi">> : a \in Operands, op \in BinSyms \ PowSyms}

ChainOperands == {<<"1">>, <<"2">>}
ChainSyms     == {<<"+">>, <<"-">>, <<"*">>, <<"/">>, <<"^">>}
ChainTexts ==
    UNION {{a \o o1 \o b \o o2 \o c,
            <<"(">> \o a \o o1 \o b \o <<")">> \o o2 \o c,
            a \o o1 \o <<"(">> \o b \o o2 \o c \o <<")">>,
            <<"-">> \o a \o o1 \o b} :
           a \in ChainOperands, b \in ChainOperands, c \in ChainOperands,
           o1 \in ChainSyms, o2 \in ChainSyms}

CalleeTexts == {<<"abs">>, <<"sqrt">>, <<"round">>, <<"factorial">>, <<"foo">>,
                <<"pi">>, <<"1">>}
ArgTexts == {<<"1">>, <<"-", "1">>, <<"foo">>, <<"1", "/", "0">>}
TailTexts ==
    {<<"ndigits", "=", "1">>, <<"ndigits", "=", "foo">>, <<"*", "*", "foo">>,
     <<"^", "foo">>, <<"*", "foo">>}

RECURSIVE Join(_)
Join(items) ==
    IF items = << >> THEN << >>
    ELSE IF Len(items) = 1 THEN items[1]
    ELSE items[1] \o <<",">> \o Join(Tail(items))

\* f(a1, ..., ak) and f(a1, ..., ak, tail) for k <= MaxArgs
CallTexts ==
    {f \o <<"(">> \o Join(as) \o <<")">> :
        f \in CalleeTexts, as \in UNION {[1..k -> ArgTexts] : k \in 0..MaxArgs}}
    \cup {f \o <<"(">> \o Join(as \o <<tl>>) \o <<")">> :
        f \in CalleeTexts, as \in UNION {[1..k -> ArgTexts] : k \in 0..MaxArgs},
        tl \in TailTexts}

OtherTexts ==
    {<<"1", ",">>, <<"(", "1", ",", "2", ")">>, <<"(", "abs", ")", "(", "1", ")">>,
     <<"abs", "(", "1", ")", "(", "1", ")">>, <<"abs", "(", "number", "=", "1", ")">>,
     <<"abs", "(", "True", ")">>, <<"abs", "(", "1", ",", "*", "*", "1", ")">>,
     <<"round", "(", ".", "5", ")">>, <<"round", "(", "2", ".", "5", ")">>,
     <<"round", "(", ".", "5", ",", "1", ")">>, <<"sqrt", "(", ".", "5", ")">>,
     <<"floor", "(", "-", ".", "5", ")">>, <<"factorial", "(", ".", "5", ")">>,
     <<"factorial", "(", "5", ")">>, <<"sqrt", "(", "2", "5", ")">>}

Inputs == RawTexts \cup Leaves \cup SignedTexts \cup PaddedTexts \cup BinaryTexts
          \cup ChainTexts \cup CallTexts \cup OtherTexts

OtherInputs == {<<"pi">>, <<"foo", "(", "1", ")">>, <<"1", "/", "0">>}

(***************************************************************************)
(* Spec: a caller evaluates arg MaxCalls times.                            *)
(***************************************************************************)
Init ==
    /\ TablesInit
    /\ init_state
    /\ arg \in Inputs
    /\ rets = << >>
    /\ others = FALSE

CallSafeEval ==
    /\ Len(rets) < MaxCalls
    /\ rets' = Append(rets, safe_eval(arg))
    /\ safe_eval_frame
    /\ UNCHANGED <<arg, others>>

CallOther ==
    /\ ~others
    /\ \E o \in OtherInputs : safe_eval(o).raised \in BOOLEAN
    /\ others' = TRUE
    /\ safe_eval_frame
    /\ UNCHANGED <<arg, rets>>

Next == CallSafeEval \/ CallOther

Spec == Init /\ [][Next]_vars

(***************************************************************************)
(* The syntax tree safe_eval walks for arg, and its nodes.                 *)
(***************************************************************************)
Tree == ast_parse(replace_caret(strip(arg)))

SeqRange(q) == {q[i] : i \in 1..Len(q)}

Children(n) ==
    CASE n.type = "BinOp"     -> {n.left, n.right}
      [] n.type = "UnaryOp"   -> {n.operand}
      [] n.type = "Call"      -> {n.func} \cup SeqRange(n.args)
                                 \cup {k.value : k \in SeqRange(n.keywords)}
      [] n.type = "Attribute" -> {n.value}
      [] n.type = "Starred"   -> {n.value}
      [] n.type = "Tuple"     -> SeqRange(n.elts)
      [] n.type = "Compare"   -> {n.left} \cup SeqRange(n.comparators)
      [] OTHER                -> {}

RECURSIVE Nodes(_)
Nodes(n) == {n} \cup UNION {Nodes(k) : k \in Children(n)}

TreeNodes == IF Tree.ok THEN Nodes(Tree.node.body) ELSE {}

\* C1: whatever the input, a call of safe_eval that fails fails with a
\* SafeEvalError; no exception of another type leaves safe_eval.
C1_OnlySafeEvalErrorEscapes ==
    \A i \in 1..Len(rets) : rets[i].raised => rets[i].exc = "SafeEvalError"

\* a node the allow-list excludes: an identifier outside SAFE_NAMES, an
\* operator outside the operator tables, a node of a kind that is not a
\* literal, a binary or unary operation, a call or an identifier
OffList(n) ==
    \/ n.type = "Name" /\ n.id \notin DOMAIN SAFE_NAMES
    \/ n.type = "BinOp" /\ n.op \notin DOMAIN ALLOWED_BINOPS
    \/ n.type = "UnaryOp" /\ n.op \notin DOMAIN ALLOWED_UNARYOPS
    \/ n.type \notin {"Constant", "BinOp", "UnaryOp", "Call", "Name"}

\* C2: when the tree of the input holds, at any position, a node the
\* allow-list excludes, safe_eval fails: it never returns a value.
C2_AllowListAtEveryNode ==
    \A i \in 1..Len(rets) :
        (\E n \in TreeNodes : OffList(n)) => rets[i].raised

IsConstantName(id) == id \in DOMAIN SAFE_NAMES /\ ~SAFE_NAMES[id].callable
IsFunctionName(id) == id \in DOMAIN SAFE_NAMES /\ SAFE_NAMES[id].callable

NameNotAllowed(id)      == SafeEvalError("Name '" \o id \o "' is not allowed.")
FunctionNotAllowed(id)  == SafeEvalError("Function '" \o id \o "' is not allowed.")
OnlyLiteralCallsAllowed == SafeEvalError("Only simple function calls are allowed.")

\* C5: in the tree of an evaluated input, an identifier evaluates to its
\* value when it names a constant of SAFE_NAMES and fails with NameNotAllowed
\* otherwise; a call whose callee is not an identifier fails with
\* OnlyLiteralCallsAllowed, a call whose callee names no function of
\* SAFE_NAMES fails with FunctionNotAllowed, whatever its arguments would
\* do, and a call of a function never fails that way; when the node is the
\* whole expression, a failure is the outcome of safe_eval.
C5_NamesOnlyInTheirRole ==
    \A i \in 1..Len(rets) : \A n \in TreeNodes :
        /\ n.type = "Name" =>
              _eval(n) = IF IsConstantName(n.id) THEN Ret(SAFE_NAMES[n.id].val)
                         ELSE NameNotAllowed(n.id)
        /\ n.type = "Call" /\ n.func.type # "Name" =>
              _eval(n) = OnlyLiteralCallsAllowed
        /\ n.type = "Call" /\ n.func.type = "Name" =>
              IF IsFunctionName(n.func.id)
              THEN _eval(n) # FunctionNotAllowed(n.func.id)
              ELSE _eval(n) = FunctionNotAllowed(n.func.id)
        /\ n = Tree.node.body /\ n.type \in {"Name", "Call"} /\ _eval(n).raised =>
              rets[i] = _eval(n)

C5_Witness ==
    /\ arg = <<"pi", "(", "1", "/", "0", ")">>
    /\ Len(rets) > 0
    /\ rets[1] = FunctionNotAllowed("pi")

\* C6: an input whose tree holds a literal that is neither an integer nor a
\* floating-point number (a boolean, None, a string, bytes, a complex
\* number, the Ellipsis) fails.
C6_OnlyNumericLiterals ==
    \A i \in 1..Len(rets) :
        (\E n \in TreeNodes : n.type = "Constant" /\ n.value.t \notin {"int", "float"})
            => rets[i].raised

\* the text with every caret spelled as the power operator
RECURSIVE PowSpelling(_)
PowSpelling(s) ==
    IF s = << >> THEN << >>
    ELSE LET init == SubSeq(s, 1, Len(s) - 1)
             last == s[Len(s)]
         IN  PowSpelling(init) \o (IF last = "^" THEN <<"*", "*">> ELSE <<last>>)

\* C8: the outcome of safe_eval on a text is the outcome of safe_eval on
\* the same text with every caret written as the power operator.
C8_CaretIsPower ==
    \A i \in 1..Len(rets) : rets[i] = safe_eval(PowSpelling(arg))

C8_Witness ==
    /\ arg = <<"2", "^", "1", "^", "2">>
    /\ Len(rets) > 0
    /\ rets[1] = Ret(PyFloat(2, 1))

MaxExprLen == 3

TypedTexts ==
    {<<" ", " ">>, <<" ", "1", " ">>, <<"1", "/", "0">>, <<"~", "1">>,
     <<"1", ",">>, <<"1", "j">>}
KeyTokens == {<<"/">>, <<"(">>}

SessionInit ==
    /\ TablesInit
    /\ init_state
    /\ arg = << >>
    /\ rets = << >>
    /\ others = FALSE

TextInput ==
    /\ \E text \in TypedTexts : text_input(text)
    /\ UNCHANGED <<tables, caller>>

AppendToExpr ==
    /\ \E token \in KeyTokens :
          /\ Len(expr) + Len(token) <= MaxExprLen
          /\ append_to_expr(token)
    /\ UNCHANGED <<tables, caller>>

Backspace    == backspace /\ UNCHANGED <<tables, caller>>
ClearAll     == clear_all /\ UNCHANGED <<tables, caller>>
Evaluate     == evaluate /\ UNCHANGED <<tables, caller>>
ClearHistory == clear_history /\ UNCHANGED <<tables, caller>>

UseHistory ==
    /\ \E i \in 1..Len(history) : use_history(i)
    /\ UNCHANGED <<tables, caller>>

SessionNext ==
    \/ TextInput
    \/ AppendToExpr
    \/ Backspace
    \/ ClearAll
    \/ Evaluate
    \/ UseHistory
    \/ ClearHistory

SpecSession == SessionInit /\ [][SessionNext]_vars

\* evaluate() ends in failure from this state
EvaluateFails == strip(expr) = << >> \/ safe_eval(strip(expr)).raised

\* C3: an evaluate() that fails, on an empty expression or on any exception
\* of safe_eval, leaves history and expr as they were.
C3_FailedEvaluateKeepsState ==
    [][Evaluate /\ EvaluateFails => history' = history /\ expr' = expr]_vars

C3_Witness ==
    /\ expr = <<"1", "/", "0">>
    /\ error = Some("division by zero")
    /\ result = None
    /\ Len(history) = 2

\* C10: result and error are never both set; after evaluate() exactly one
\* of them is set, result when the evaluation succeeded and error when it
\* failed; clear_all() empties expr, result and error and keeps history;
\* append_to_expr and backspace change nothing but expr.
C10_ResultXorError ==
    /\ [](result = None \/ error = None)
    /\ [][Evaluate => /\ (result' # None) # (error' # None)
                       /\ (result' # None) = ~EvaluateFails]_vars
    /\ [][ClearAll => /\ expr' = << >> /\ result' = None /\ error' = None
                       /\ history' = history]_vars
    /\ [][AppendToExpr \/ Backspace => UNCHANGED <<result, error, history>>]_vars

C10_Witness ==
    /\ result = Some("1")
    /\ error = None
    /\ expr = <<" ", "1", "/">>
    /\ Len(history) = 1

(***************************************************************************)
(* SpecTyped: the user types arg into the text box and evaluates it, and   *)
(* a caller passes the same text to safe_eval.                             *)
(***************************************************************************)
BlankTexts == {s \in RawTexts : strip(s) = << >>}
TypedArgs  == BlankTexts \cup {<<" ", "1", " ">>, <<"1", "/", "0">>}

TypedInit ==
    /\ TablesInit
    /\ init_state
    /\ arg \in TypedArgs
    /\ rets = << >>
    /\ others = FALSE

TypeArg ==
    /\ text_input(arg)
    /\ UNCHANGED <<tables, caller>>

TypedNext == TypeArg \/ Backspace \/ Evaluate \/ CallSafeEval

SpecTyped == TypedInit /\ [][TypedNext]_vars

\* C7: safe_eval on a text that is empty once trimmed fails with "Empty
\* expression."; evaluate() on such an expression sets an error, sets no
\* result and leaves the history as it was.
C7_EmptyExpression ==
    /\ [](\A i \in 1..Len(rets) :
             strip(arg) = << >> => rets[i] = SafeEvalError("Empty expression."))
    /\ [][Evaluate /\ strip(expr) = << >> =>
             error' # None /\ result' = None /\ history' = history]_vars

C7_Witness ==
    /\ arg = <<" ", " ">>
    /\ Len(rets) > 0
    /\ expr = <<" ", " ">>
    /\ error = Some("Enter an expression.")
    /\ result = None
    /\ history = << >>

(***************************************************************************)
(* SpecHist: the session with two expressions that evaluate, "1" and "2",  *)
(* typed into the text box, and the keypad's "/".  The runs explored are   *)
(* those whose history holds the second expression at most MaxRepeats      *)
(* times: without that bound the histories are all the sequences of 15     *)
(* entries over the two expressions.                                       *)
(***************************************************************************)
MaxKeys    == 1
MaxRepeats == 2

HistTexts  == {<<"1">>, <<"2">>}
HistTokens == {<<"/">>}

HistTextInput ==
    /\ \E text \in HistTexts : text_input(text)
    /\ UNCHANGED <<tables, caller>>

HistAppend ==
    /\ \E token \in HistTokens :
          /\ Len(expr) + Len(token) <= MaxKeys
          /\ append_to_expr(token)
    /\ UNCHANGED <<tables, caller>>

Repeats(text) == Cardinality({k \in 1..Len(history) : history[k][1] = text})

HistEvaluate ==
    /\ strip(expr) = <<"2">> => Repeats(<<"2">>) < MaxRepeats
    /\ evaluate
    /\ UNCHANGED <<tables, caller>>

HistNext ==
    \/ HistTextInput
    \/ HistAppend
    \/ Backspace
    \/ ClearAll
    \/ HistEvaluate
    \/ UseHistory
    \/ ClearHistory

SpecHist == SessionInit /\ [][HistNext]_vars

\* C4: the history never holds more than 15 entries; a successful
\* evaluate() puts (stripped expression, shown result) first, moves every
\* earlier entry down by one in the same order, and keeps the first 15, so
\* that only the last entry of a full history is dropped; no action but
\* evaluate() and the clearing of the history changes the history.
C4_HistoryCappedNewestFirst ==
    /\ [](Len(history) <= 15)
    /\ [][Evaluate /\ ~EvaluateFails =>
            /\ history'[1] = <<strip(expr), format_result(safe_eval(strip(expr)).val)>>
            /\ Len(history') = IF Len(history) < 15 THEN Len(history) + 1 ELSE 15
            /\ \A k \in 2..Len(history') : history'[k] = history[k - 1]]_vars
    /\ [][history' # history => Evaluate \/ ClearHistory]_vars

C4_Witness ==
    /\ Len(history) = 15
    /\ history[1] = <<<<"2">>, "2">>
    /\ history[2] = <<<<"1">>, "1">>
    /\ history[15] = <<<<"2">>, "2">>
    /\ result = Some("2")

=============================================================================
